---------------------------- MODULE Spec2Model ----------------------------
(***************************************************************************)
(* A model of ldd-rs: the ELF64 decoding functions of src/imp/elf64.rs     *)
(* (struct Elf64) and the program of src/main.rs.                          *)
(*                                                                         *)
(* A byte buffer is a sequence of naturals below 256; Rust's 0-based       *)
(* index i is the sequence's index i + 1.  A call's result is a record     *)
(* whose kind is "some" / "none" (an Option), "ok" (a plain value),        *)
(* "panic" (the thread unwinds: a slice index out of range, a failed       *)
(* unwrap / expect, chunks(0)) or "uncalled".                              *)
(*                                                                         *)
(* Integers: a decoded u64 / u32 / usize that is at least U64Cap is        *)
(* represented by U64Cap itself.  The code only ever compares such a value *)
(* with 0, with a tag below 256, or with a buffer length, and every buffer *)
(* of the model is far shorter than U64Cap, so every comparison comes out  *)
(* as it does on the exact value.  Sums and products saturate at U64Cap:   *)
(* on the machine an overflowing usize sum either panics (overflow checks) *)
(* or wraps to an end below the start, and the slice then panics; the      *)
(* saturated end exceeds every length, and the slice panics too.           *)
(* usize is 64 bits wide and the host is little-endian (the ELF64 case).   *)
(***************************************************************************)
EXTENDS Integers, Sequences, FiniteSets, TLC

VARIABLES
    buffer,      \* the bytes decoded: Elf64's argument, main()'s buf
    h_meta,      \* result of Elf64::extract_section_header_meta
    dyn_meta,    \* result of Elf64::extract_program_section_meta
    criticals,   \* result of Elf64::read_dynamic_section
    results,     \* result of Elf64::extract_library_names
    main_pc,     \* main(): the statement group it is at
    stderr,      \* main(): the lines written by eprintln!
    stdout,      \* main(): the values written by println!
    elf_identifier,   \* main(): the header it decoded
    section_header,   \* main(): the program sections of type 2 it kept
    env          \* main(): the arguments and the file system it runs in

vars == <<buffer, h_meta, dyn_meta, criticals, results,
          main_pc, stderr, stdout, elf_identifier, section_header, env>>

-----------------------------------------------------------------------------
(* Bytes, slices and integers; iter.filter(p).collect() is SelectSeq *)

U64Cap == 2^30

\* &buffer[a..b] is in range
InRange(buf, a, b) == a <= b /\ b <= Len(buf)

\* &buffer[a..b], for a range that is in range
Slice(buf, a, b) == SubSeq(buf, a + 1, b)

\* usize + usize
usize_add(a, b) == IF a >= U64Cap - b THEN U64Cap ELSE a + b

\* usize * usize
usize_mul(a, b) == IF a # 0 /\ b > U64Cap \div a THEN U64Cap ELSE a * b

u16_from_le_bytes(b) == b[1] + 256 * b[2]

u32_from_le_bytes(b) ==
    IF b[4] >= 64 THEN U64Cap
    ELSE b[1] + 256 * b[2] + 65536 * b[3] + 16777216 * b[4]

u64_from_le_bytes(b) ==
    IF b[4] >= 64 \/ b[5] # 0 \/ b[6] # 0 \/ b[7] # 0 \/ b[8] # 0 THEN U64Cap
    ELSE b[1] + 256 * b[2] + 65536 * b[3] + 16777216 * b[4]

\* slice.chunks(n), n > 0: consecutive chunks of n bytes, the last one shorter
\* when n does not divide the length; ChunkCount is the number of chunks
ChunkCount(len, n) == (len + n - 1) \div n

chunks(s, n) ==
    [i \in 1..ChunkCount(Len(s), n) |->
        SubSeq(s, (i - 1) * n + 1, IF i * n < Len(s) THEN i * n ELSE Len(s))]

-----------------------------------------------------------------------------
(* src/imp/elf64.rs *)

PtDynamicRaw == 2
DtNeededRaw == 1
DtStrTabRaw == 5
DtStrSzRaw == 10
PROGRAM_SECTIONS_ELEMENT_SIZE == 16

\* impl From<u32> for ElfSegmentType
ElfSegmentType_from(value) ==
    IF value = PtDynamicRaw THEN "PtDynamic" ELSE "Irrelevant"

\* impl From<u64> for DynSectionTag
DynSectionTag_from(value) ==
    IF value = DtNeededRaw THEN "DtNeeded"
    ELSE IF value = DtStrTabRaw THEN "DtStrTab"
    ELSE IF value = DtStrSzRaw THEN "DtStrSz"
    ELSE "Irrelevant"

Uncalled == [kind |-> "uncalled"]
Panic == [kind |-> "panic"]
None == [kind |-> "none"]
Some(v) == [kind |-> "some", val |-> v]
Ok(v) == [kind |-> "ok", val |-> v]

\* (a variant that reads e_phoff where the doc comment of the function puts
\* it, at bytes 0x28 to 0x30)
HeaderFields_0x28(buf) ==
    [e_phoff     |-> u64_from_le_bytes(Slice(buf, 40, 48)),
     e_phentsize |-> u16_from_le_bytes(Slice(buf, 54, 56)),
     e_phnum     |-> u16_from_le_bytes(Slice(buf, 56, 58))]

\* The three header fields, read from a buffer of at least 0x3a bytes
HeaderFields(buf) ==
    [e_phoff     |-> u64_from_le_bytes(Slice(buf, 32, 40)),
     e_phentsize |-> u16_from_le_bytes(Slice(buf, 54, 56)),
     e_phnum     |-> u16_from_le_bytes(Slice(buf, 56, 58))]

extract_section_header_meta(buf) ==
    IF ~(InRange(buf, 32, 40) /\ InRange(buf, 54, 56) /\ InRange(buf, 56, 58))
    THEN Panic
    ELSE LET f == HeaderFields(buf)
         IN  IF f.e_phoff = 0 THEN None ELSE Some(f)

\* The closure mapped over the chunks of the program header table
DecodeProgramSection(ch) ==
    [p_type   |-> ElfSegmentType_from(u32_from_le_bytes(Slice(ch, 0, 4))),
     p_offset |-> u64_from_le_bytes(Slice(ch, 8, 16)),
     p_filesz |-> u64_from_le_bytes(Slice(ch, 32, 40))]

\* Whether the closure indexes the chunk in range
ProgramSectionDecodes(ch) ==
    InRange(ch, 0, 4) /\ InRange(ch, 8, 16) /\ InRange(ch, 32, 40)

IsPtDynamic(sec) == sec.p_type = "PtDynamic"

extract_program_section_meta(buf, meta) ==
    LET section_offset == meta.e_phoff
        section_size   == meta.e_phentsize
        section_amount == meta.e_phnum
        section_end    == usize_add(section_offset,
                                    usize_mul(section_size, section_amount))
    IN  IF ~InRange(buf, section_offset, section_end) THEN Panic
        ELSE IF section_size = 0 THEN Panic      \* chunks(0)
        ELSE LET chs == chunks(Slice(buf, section_offset, section_end),
                               section_size)
             IN  IF \E i \in 1..Len(chs) : ~ProgramSectionDecodes(chs[i])
                 THEN Panic
                 ELSE LET secs == [i \in 1..Len(chs) |->
                                       DecodeProgramSection(chs[i])]
                          dyns == SelectSeq(secs, IsPtDynamic)
                      IN  IF dyns = <<>> THEN None ELSE Some(dyns[1])

\* The closure mapped over the chunks of the dynamic section
DecodeDynSectionElement(x) ==
    [d_tag   |-> DynSectionTag_from(u64_from_le_bytes(Slice(x, 0, 8))),
     d_thing |-> u64_from_le_bytes(Slice(x, 8, Len(x)))]

\* x[0x0..0x08] and x[0x08..] are in range and the latter is 8 bytes long
DynSectionElementDecodes(x) == InRange(x, 0, 8) /\ Len(x) - 8 = 8

IsDtStrTab(x) == x.d_tag = "DtStrTab"
IsDtNeeded(x) == x.d_tag = "DtNeeded"

\* The predicate of the find() whose result becomes dt_strsz
StrSzPredicate(x) == IsDtStrTab(x)

read_dynamic_section(buf, meta) ==
    LET offset == meta.p_offset
        size   == meta.p_filesz
        end    == usize_add(offset, size)
    IN  IF ~InRange(buf, offset, end) THEN Panic
        ELSE LET chs == chunks(Slice(buf, offset, end),
                               PROGRAM_SECTIONS_ELEMENT_SIZE)
             IN  IF \E i \in 1..Len(chs) : ~DynSectionElementDecodes(chs[i])
                 THEN Panic
                 ELSE LET elements == [i \in 1..Len(chs) |->
                                           DecodeDynSectionElement(chs[i])]
                          tabs   == SelectSeq(elements, IsDtStrTab)
                          szs    == SelectSeq(elements, StrSzPredicate)
                          needed == SelectSeq(elements, IsDtNeeded)
                      IN  IF tabs = <<>> THEN Panic      \* expect
                          ELSE IF szs = <<>> THEN Panic  \* expect
                          ELSE Ok([dt_strtab |-> tabs[1],
                                   dt_strsz  |-> szs[1].d_thing,
                                   dt_needed |-> needed])


\* core::str::from_utf8 accepts the byte sequence: the well-formed UTF-8 byte
\* sequences of the Unicode standard (no overlong form, no surrogate, at most
\* U+10FFFF)
\* A sequence is well formed iff it does not start with a continuation byte
\* and every other byte b starts a sequence of Utf8Width(b) bytes that is
\* complete, has the second byte its lead byte allows, and is not followed by
\* one more continuation byte.
IsCont(b) == b >= 128 /\ b <= 191

Utf8Width(b) ==
    IF b <= 127 THEN 1
    ELSE IF b >= 194 /\ b <= 223 THEN 2
    ELSE IF b >= 224 /\ b <= 239 THEN 3
    ELSE IF b >= 240 /\ b <= 244 THEN 4
    ELSE 0

is_utf8(s) ==
    /\ s # <<>> => ~IsCont(s[1])
    /\ \A i \in 1..Len(s) :
          IsCont(s[i]) \/
          LET b == s[i]
              w == Utf8Width(b)
          IN  /\ w > 0
              /\ i + w - 1 <= Len(s)
              /\ \A k \in (i + 1)..(i + w - 1) : IsCont(s[k])
              /\ (i + w <= Len(s) => ~IsCont(s[i + w]))
              /\ (b = 224 => s[i + 1] >= 160)
              /\ (b = 237 => s[i + 1] <= 159)
              /\ (b = 240 => s[i + 1] >= 144)
              /\ (b = 244 => s[i + 1] <= 143)

\* Cursor::seek(SeekFrom::Start(n)) followed by BufRead::read_until(delim, ..)
\* on a Cursor over `table`: the bytes appended to the output vector.  The
\* cursor reads from min(n, len); the delimiter, when found, is appended too;
\* without a delimiter the read ends at the end of the table, with Ok.
read_until(table, n, delim) ==
    LET start == IF n < Len(table) THEN n ELSE Len(table)
        found == {i \in (start + 1)..Len(table) : table[i] = delim}
        last  == IF found = {} THEN Len(table)
                 ELSE CHOOSE i \in found : \A j \in found : i <= j
    IN  SubSeq(table, start + 1, last)

\* One iteration of the loop over dt_needed: the bytes pushed as a String
library_name(table, needed) == read_until(table, needed.d_thing, 0)

\* (a variant that pushes each name in front of the ones before it)
library_names_reversed(table, dt_needed) ==
    [i \in 1..Len(dt_needed) |->
        library_name(table, dt_needed[Len(dt_needed) + 1 - i])]

\* The loop over dt_needed: the byte strings pushed, in the order pushed
library_names(table, dt_needed) ==
    [i \in 1..Len(dt_needed) |-> library_name(table, dt_needed[i])]

extract_library_names(buf, crit) ==
    LET str_table_offset == crit.dt_strtab.d_thing
        str_table_size   == crit.dt_strsz
        str_table_end    == usize_add(str_table_offset, str_table_size)
    IN  IF ~InRange(buf, str_table_offset, str_table_end) THEN Panic
        ELSE LET string_table == Slice(buf, str_table_offset, str_table_end)
                 names == library_names(string_table, crit.dt_needed)
             IN  IF \E i \in 1..Len(names) : ~is_utf8(names[i])
                 THEN Panic                          \* from_utf8(..).unwrap()
                 ELSE Ok(names)

-----------------------------------------------------------------------------
(* src/main.rs *)

MAGIC_IDENT == <<127, 69, 76, 70>>

\* std::ptr::read of a record that is longer than what is left of the Vec
\* reads the memory behind the Vec's bytes: `tail` is that memory, tail[1]
\* the byte right after the last byte of the Vec.  No record read reaches
\* 16 bytes or more past the end.  What the memory holds is not the
\* program's to decide (spare capacity with stale bytes, the size word of
\* the next heap chunk, other allocations; it changes with the arguments and
\* from run to run): it is part of what main() is run in, env.heap.  A run
\* reads behind the Vec at most once: after a header read that does, the
\* slice of line 52 panics.

\* The byte at 0-based index i as an unchecked read sees it
RawByte(buf, i, tail) ==
    IF i < Len(buf) THEN buf[i + 1] ELSE tail[i - Len(buf) + 1]

\* An unchecked read of n bytes at 0-based index a
RawBytes(buf, a, n, tail) == [k \in 1..n |-> RawByte(buf, a + k - 1, tail)]

\* e_shoff as usize + e_shentsize as usize exceeds 2^64 - 1
AddOverflows64(b, n) ==
    /\ \A k \in 3..8 : b[k] = 255
    /\ b[1] + 256 * b[2] + n >= 65536

\* The fields of Elf32Header (repr(C), 64 bytes: e_shoff at 40, e_shentsize
\* at 58) that main() uses after the unchecked read from &buf[0..52]
ReadElf32Header(buf, tail) ==
    [e_shoff     |-> u64_from_le_bytes(RawBytes(buf, 40, 8, tail)),
     e_shentsize |-> u16_from_le_bytes(RawBytes(buf, 58, 2, tail))]

\* The fields of main.rs's ElfProgramSection (repr(C), 56 bytes: p_type at 0,
\* p_offset at 8, p_filesz at 32) read unchecked from the chunk at 0-based
\* index a
ReadElfProgramSection(buf, a, tail) ==
    [p_type   |-> u32_from_le_bytes(RawBytes(buf, a, 4, tail)),
     p_offset |-> u64_from_le_bytes(RawBytes(buf, a + 8, 8, tail)),
     p_filesz |-> u64_from_le_bytes(RawBytes(buf, a + 32, 8, tail))]

\* DynamicSectionElement (repr(C), 16 bytes: d_tag: i32 at 0, d_thing at 8)
\* read unchecked from the chunk at 0-based index a.  d_tag is only compared
\* with 29, so the sign of the i32 never matters.
ReadDynamicSectionElement(buf, a, tail) ==
    [d_tag   |-> u32_from_le_bytes(RawBytes(buf, a, 4, tail)),
     d_thing |-> u64_from_le_bytes(RawBytes(buf, a + 8, 8, tail))]

\* The thread panics (exit status 101)
MainPanics ==
    /\ main_pc' = "panicked"
    /\ UNCHANGED <<stderr, stdout, elf_identifier, section_header>>

\* main.rs 15-34: the arguments are collected, the file at the path is
\* opened and read to its end into buf.  Collecting panics when an argument
\* is not valid Unicode (std::env::Args::next unwraps the conversion), the
\* program's name and the arguments after the path included.  Without a path
\* argument main panics; when the file cannot be opened it writes the error
\* to stderr and returns (exit status 0); when it cannot be read, the unwrap
\* panics.
MainReadFile ==
    /\ main_pc = "start"
    /\ IF \E i \in 1..Len(env.args) : env.args[i] = "not unicode"
       THEN MainPanics /\ UNCHANGED buffer                \* args().collect()
       ELSE IF Len(env.args) < 2
       THEN MainPanics /\ UNCHANGED buffer                \* "Path is missing"
       ELSE IF env.open # "ok"
       THEN /\ stderr' = stderr \o <<"Error reading file " \o env.open>>
            /\ main_pc' = "returned"
            /\ UNCHANGED <<buffer, stdout, elf_identifier, section_header>>
       ELSE IF env.read # "ok" THEN MainPanics /\ UNCHANGED buffer
       ELSE /\ buffer' = env.bytes
            /\ main_pc' = "magic"
            /\ UNCHANGED <<stderr, stdout, elf_identifier, section_header>>
    /\ UNCHANGED <<h_meta, dyn_meta, criticals, results, env>>

\* main.rs 36-40: the magic check.  A mismatch is reported on stderr; the
\* function does not return.
MainCheckMagic ==
    /\ main_pc = "magic"
    /\ IF ~InRange(buffer, 0, 4) THEN MainPanics
       ELSE /\ stderr' = IF MAGIC_IDENT # Slice(buffer, 0, 4)
                         THEN stderr \o <<"Not an ELF file.",
                              "First four bytes don't match the ELF specification.">>
                         ELSE stderr
            /\ main_pc' = "header"
            /\ UNCHANGED <<stdout, elf_identifier, section_header>>
    /\ UNCHANGED <<buffer, h_meta, dyn_meta, criticals, results, env>>

\* main.rs 42-50: the file header is read and printed, and the section header
\* range is computed (and not used).  On a buffer of 52 to 63 bytes the read
\* of the 64-byte record goes past the end of the Vec.
MainReadHeader ==
    /\ main_pc = "header"
    /\ IF ~InRange(buffer, 0, 52) THEN MainPanics
       ELSE LET tail == env.heap
                h == ReadElf32Header(buffer, tail)
            IN  /\ elf_identifier' = h
                /\ stdout' = stdout \o <<h>>
                \* the sum of line 50 overflows: a panic with overflow
                \* checks, a wrapped and unused value without
                /\ main_pc' \in
                      (IF AddOverflows64(RawBytes(buffer, 40, 8, tail),
                                         h.e_shentsize)
                       THEN {"panicked", "scan"} ELSE {"scan"})
                /\ UNCHANGED <<stderr, section_header>>
    /\ UNCHANGED <<buffer, h_meta, dyn_meta, criticals, results, env>>

\* main.rs 52-56: the chunks of 56 bytes of buf[64..12 * 56] whose p_type is 2
MainScanProgramHeaders ==
    /\ main_pc = "scan"
    /\ IF ~InRange(buffer, 64, 12 * 56) THEN MainPanics
       ELSE \* the last chunk holds 48 bytes: the three fields used lie inside
            \* it, whatever lies behind
            LET n    == ChunkCount(12 * 56 - 64, 56)
                secs == [i \in 1..n |->
                            ReadElfProgramSection(buffer, 64 + 56 * (i - 1),
                                                  env.heap)]
                IsDyn(x) == x.p_type = 2
            IN  /\ section_header' = SelectSeq(secs, IsDyn)
                /\ main_pc' = "dynamic"
                /\ UNCHANGED <<stderr, stdout, elf_identifier>>
    /\ UNCHANGED <<buffer, h_meta, dyn_meta, criticals, results, env>>

\* main.rs 58-66: the dynamic section of the first kept program section is
\* read in chunks of 16 bytes and its first element of tag 29 is printed.
\* The read of a last chunk shorter than 16 bytes goes past the slice, and
\* past the end of the Vec when the slice ends there.  At an offset that is
\* no multiple of 8 the records are read through misaligned pointers: a
\* build that checks the precondition of ptr::read panics, another reads.
MainReadDynamic ==
    /\ main_pc = "dynamic"
    /\ IF section_header = <<>> THEN MainPanics          \* section_header[0]
       ELSE LET needed == section_header[1]
                dyn_section_offset == needed.p_offset
                dyn_section_size   == needed.p_filesz
                dyn_end == usize_add(dyn_section_offset, dyn_section_size)
                n == ChunkCount(dyn_section_size, 16)
            IN  IF ~InRange(buffer, dyn_section_offset, dyn_end)
                THEN MainPanics
                ELSE \/ /\ n > 0
                        /\ dyn_section_offset % 8 # 0
                        /\ MainPanics
                     \/ LET tail == env.heap
                            els == [i \in 1..n |->
                                      ReadDynamicSectionElement(buffer,
                                          dyn_section_offset + 16 * (i - 1),
                                          tail)]
                            Is29(x) == x.d_tag = 29
                            hits == SelectSeq(els, Is29)
                        IN  IF hits = <<>> THEN MainPanics  \* collect()[0]
                            ELSE /\ stdout' = stdout \o <<hits[1]>>
                                 /\ main_pc' = "done"
                                 /\ UNCHANGED <<stderr, elf_identifier,
                                                section_header>>
    /\ UNCHANGED <<buffer, h_meta, dyn_meta, criticals, results, env>>

-----------------------------------------------------------------------------
(* The callers of Elf64: each function is applied to the buffer and to the   *)
(* value the previous one returned (the fields of Elf64SHeaderMeta,          *)
(* ElfProgramSection and DynamicSectionCriticals are private: the only       *)
(* values of these types are the ones these functions return).               *)

Elf64Idle == UNCHANGED <<buffer, main_pc, stderr, stdout, elf_identifier,
                         section_header, env>>

ExtractSectionHeaderMeta ==
    /\ h_meta = Uncalled
    /\ h_meta' = extract_section_header_meta(buffer)
    /\ UNCHANGED <<dyn_meta, criticals, results>>
    /\ Elf64Idle

ExtractProgramSectionMeta ==
    /\ h_meta.kind = "some"
    /\ dyn_meta = Uncalled
    /\ dyn_meta' = extract_program_section_meta(buffer, h_meta.val)
    /\ UNCHANGED <<h_meta, criticals, results>>
    /\ Elf64Idle

ReadDynamicSection ==
    /\ dyn_meta.kind = "some"
    /\ criticals = Uncalled
    /\ criticals' = read_dynamic_section(buffer, dyn_meta.val)
    /\ UNCHANGED <<h_meta, dyn_meta, results>>
    /\ Elf64Idle

ExtractLibraryNames ==
    /\ criticals.kind = "ok"
    /\ results = Uncalled
    /\ results' = extract_library_names(buffer, criticals.val)
    /\ UNCHANGED <<h_meta, dyn_meta, criticals>>
    /\ Elf64Idle

-----------------------------------------------------------------------------
(* The files the programs are run on *)

MaxPh == 2        \* program header entries in a table
MaxDyn == 3       \* elements in a dynamic section
MaxMainDyn == 2   \* elements in a dynamic section given to main()
MaxArgs == 3      \* arguments of main(), the program's name included

\* n bytes, little-endian, of v; a v of U64Cap stands for 2^(8n) - 1
le_bytes(v, n) ==
    [k \in 1..n |->
        IF v >= U64Cap THEN 255
        ELSE IF k = 1 THEN v % 256
        ELSE IF k = 2 THEN (v \div 256) % 256
        ELSE IF k = 3 THEN (v \div 65536) % 256
        ELSE IF k = 4 THEN v \div 16777216
        ELSE 0]

Fill(n, b) == [k \in 1..n |-> b]

RECURSIVE Concat(_)
Concat(ss) == IF ss = <<>> THEN <<>> ELSE Head(ss) \o Concat(Tail(ss))

SeqsUpTo(S, n) == UNION {[1..k -> S] : k \in 0..n}

\* An ELF64 file header: e_ident, then e_phoff at 0x20, e_shoff at 0x28,
\* e_phentsize at 0x36, e_phnum at 0x38, e_shentsize at 0x3a
ElfHeaderBytes(magic, e_phoff, e_shoff, e_phentsize, e_phnum) ==
    magic \o <<2, 1, 1>> \o Fill(25, 0)
    \o le_bytes(e_phoff, 8) \o le_bytes(e_shoff, 8) \o Fill(6, 0)
    \o le_bytes(e_phentsize, 2) \o le_bytes(e_phnum, 2) \o le_bytes(64, 2)
    \o Fill(4, 0)

\* The first `size` bytes of an Elf64_Phdr
ProgramEntryBytes(p_type, p_offset, p_filesz, size) ==
    SubSeq(le_bytes(p_type, 4) \o Fill(4, 0) \o le_bytes(p_offset, 8)
           \o Fill(16, 0) \o le_bytes(p_filesz, 8) \o Fill(16, 0), 1, size)

\* An Elf64_Dyn
DynElementBytes(d_tag, d_val) == le_bytes(d_tag, 8) \o le_bytes(d_val, 8)

\* "a", "bc"
StrTabAscii == <<97, 0, 98, 99, 0>>
\* U+00E9, then a byte that is not UTF-8
StrTabBadUtf8 == <<195, 169, 0, 255, 0>>

DynKinds == {"N0", "N1", "N2", "N3", "T", "T2", "S", "O"}

\* The element a kind stands for, in a file whose string table is `strtab`
\* at offset `stroff`
DynElementOf(kind, stroff, strtab) ==
    CASE kind = "N0" -> DynElementBytes(1, 0)
      [] kind = "N1" -> DynElementBytes(1, 3)
      [] kind = "N2" -> DynElementBytes(1, Len(strtab))
      [] kind = "N3" -> DynElementBytes(1, U64Cap)
      [] kind = "T"  -> DynElementBytes(5, stroff)
      [] kind = "T2" -> DynElementBytes(5, 64)
      [] kind = "S"  -> DynElementBytes(10, Len(strtab))
      [] kind = "O"  -> DynElementBytes(29, 7)

\* What follows the string table: nothing, or bytes up to twice its offset
Padded(body, stroff, pad) ==
    CASE pad = "none" -> body
      [] pad = "zero" -> body \o Fill(2 * stroff - Len(body), 0)
      [] pad = "x"    -> body \o Fill(2 * stroff - Len(body), 120)

\* header | one PT_DYNAMIC entry | the dynamic section | the string table
DynImage(kinds, strtab, pad) ==
    LET n      == Len(kinds)
        dynoff == 64 + 56
        stroff == dynoff + 16 * n
    IN  Padded(ElfHeaderBytes(MAGIC_IDENT, 64, 0, 56, 1)
               \o ProgramEntryBytes(2, dynoff, 16 * n, 56)
               \o Concat([i \in 1..n |-> DynElementOf(kinds[i], stroff, strtab)])
               \o strtab,
               stroff, pad)

DynImages ==
    {DynImage(kinds, v[1], v[2]) :
        kinds \in SeqsUpTo(DynKinds, MaxDyn),
        v \in {<<StrTabAscii, "none">>, <<StrTabAscii, "zero">>,
               <<StrTabAscii, "x">>, <<StrTabBadUtf8, "zero">>}}

\* header | program header table | a dynamic section of T, S, N0 | the string
\* table; entry i points at the dynamic section from its i-th element on
HdrImage(e_phoff, e_phentsize, types, shape, cut) ==
    LET n      == Len(types)
        dynoff == 64 + e_phentsize * n
        stroff == dynoff + 48
        left(i) == IF i <= 3 THEN 16 * (4 - i) ELSE 0
        filesz(i) == CASE shape = "exact"   -> left(i)
                       [] shape = "partial" -> left(i) + 8
                       [] shape = "beyond"  -> 5000
        body == Padded(
                  ElfHeaderBytes(MAGIC_IDENT, e_phoff, 0, e_phentsize, n)
                  \o Concat([i \in 1..n |->
                        ProgramEntryBytes(types[i], dynoff + 16 * (i - 1),
                                          filesz(i), e_phentsize)])
                  \o DynElementOf("T", stroff, StrTabAscii)
                  \o DynElementOf("S", stroff, StrTabAscii)
                  \o DynElementOf("N0", stroff, StrTabAscii)
                  \o StrTabAscii,
                  stroff, "zero")
    IN  CASE cut = "full" -> body
          [] cut = "pht"  -> SubSeq(body, 1, dynoff - 1)
          [] cut = "hdr"  -> SubSeq(body, 1, 57)

HdrImages ==
    {HdrImage(e_phoff, e_phentsize, types, shape, cut) :
        e_phoff \in {0, 64, 5000, U64Cap},
        e_phentsize \in {0, 8, 40, 56},
        types \in SeqsUpTo({1, 2}, MaxPh),
        shape \in {"exact", "partial", "beyond"},
        cut \in {"full", "pht", "hdr"}}

\* Elf64's functions are given the buffer; there is no main() around them
NoEnv == [args |-> <<>>, open |-> "ok", read |-> "ok", bytes |-> <<>>,
          heap |-> [k \in 1..16 |-> 0]]

Init ==
    /\ buffer \in DynImages \cup HdrImages
    /\ h_meta = Uncalled
    /\ dyn_meta = Uncalled
    /\ criticals = Uncalled
    /\ results = Uncalled
    /\ main_pc = "idle"
    /\ stderr = <<>>
    /\ stdout = <<>>
    /\ elf_identifier = Uncalled
    /\ section_header = <<>>
    /\ env = NoEnv

Next ==
    \/ ExtractSectionHeaderMeta
    \/ ExtractProgramSectionMeta
    \/ ReadDynamicSection
    \/ ExtractLibraryNames

Spec == Init /\ [][Next]_vars

\* header | 10 entries of 56 bytes and one cut to 48, up to byte 12 * 56 | the
\* dynamic section; the entries numbered in `dynset` have type 2; the file is
\* cut to `len` bytes when it is longer.  Shape "partial" ends the section
\* and the file 12 bytes into one more element, of tag 29 (its d_thing has
\* its four low bytes in the file); shape "odd" puts the section 4 bytes
\* further on.
MainImage(magic, len, dynset, kinds, shape, e_shoff) ==
    LET n      == Len(kinds)
        dynoff == IF shape = "odd" THEN 12 * 56 + 4 ELSE 12 * 56
        filesz == CASE shape = "exact"   -> 16 * n
                    [] shape = "odd"     -> 16 * n
                    [] shape = "partial" -> 16 * n + 12
                    [] shape = "beyond"  -> 5000
        body == ElfHeaderBytes(magic, 64, e_shoff, 56, 11)
                \o Concat([i \in 1..11 |->
                      ProgramEntryBytes(IF i \in dynset THEN 2 ELSE 1, dynoff,
                                        filesz, IF i = 11 THEN 48 ELSE 56)])
                \o (IF shape = "odd" THEN Fill(4, 0) ELSE <<>>)
                \o Concat([i \in 1..n |-> DynElementOf(kinds[i], 0, <<>>)])
                \o (IF shape = "partial"
                    THEN SubSeq(DynElementBytes(29, 9), 1, 12) ELSE <<>>)
    IN  IF len < Len(body) THEN SubSeq(body, 1, len) ELSE body

MainImages ==
    {MainImage(magic, len, dynset, kinds, shape, e_shoff) :
        magic \in {MAGIC_IDENT, <<0, 0, 0, 0>>, <<127, 69, 76, 71>>},
        len \in {2, 40, 56, 58, 59, 100, 10000},
        dynset \in {{}, {1}, {6}, {11}, {3, 6}},
        kinds \in SeqsUpTo({"O", "N0"}, MaxMainDyn),
        shape \in {"exact", "partial", "odd", "beyond"},
        e_shoff \in {0, U64Cap}}

\* The 16 bytes behind the Vec: zeros with the 8-byte word w at 0-based
\* index p (p + 8 <= 16)
WordAt(p, w) ==
    [k \in 1..16 |-> IF k > p /\ k <= p + 8 THEN le_bytes(w, 8)[k - p] ELSE 0]

NoTail == [k \in 1..16 |-> 0]

\* The 16 bytes behind the Vec, each b
Uniform(b) == [k \in 1..16 |-> b]

\* The memory behind the Vec that the runs on the file b are made with: for
\* each value that main can read there and that shows in what it prints or
\* does, one tail that gives it.
\*  - A file of 52 to 59 bytes has the bytes 58 and 59 of the header,
\*    e_shentsize, behind the Vec, or the higher of them: every value of
\*    those bytes.  The other fields main uses lie in the file.
\*  - The read of a longer file goes behind the Vec when the file ends
\*    inside an element of the dynamic section.  In the files of MainImages
\*    the element is cut after 12 bytes: the bytes behind are the four high
\*    bytes of d_thing, and d_thing is the value of its low bytes when they
\*    are all zero and 2^32 or more (U64Cap here) when they are not.
HeapTailsFor(b) ==
    IF Len(b) >= 52 /\ Len(b) < 60
    THEN LET first == IF Len(b) > 58 THEN Len(b) ELSE 58
         IN  {WordAt(first - Len(b), w) : w \in 0..(256 ^ (60 - first) - 1)}
    ELSE {NoTail, Uniform(255)}

\* An argument that is valid Unicode
Unicode == "unicode"

\* What main() is run in: its arguments (the program's name first; of each,
\* whether it is valid Unicode), how opening and reading the file end ("ok"
\* or the error's text), the file's bytes and the memory behind the Vec
\* they are read into
MainEnv(args, open, read, bytes, heap) ==
    [args |-> args, open |-> open, read |-> read, bytes |-> bytes,
     heap |-> heap]

MainArgs == SeqsUpTo({Unicode, "not unicode"}, MaxArgs)

\* main() is entered: nothing read, nothing written.  The runs made: every
\* file of MainImages with the memory behind the Vec that HeapTailsFor gives;
\* every argument list with one good file; files that cannot be opened or
\* read.
MainInit ==
    /\ \/ \E b \in MainImages : \E t \in HeapTailsFor(b) :
            env = MainEnv(<<Unicode, Unicode>>, "ok", "ok", b, t)
       \/ \E a \in MainArgs :
            env = MainEnv(a, "ok", "ok",
                          MainImage(MAGIC_IDENT, 10000, {1}, <<"O">>,
                                    "exact", 0), NoTail)
       \/ \E e \in {"No such file or directory (os error 2)",
                    "Permission denied (os error 13)"} :
            env = MainEnv(<<Unicode, Unicode>>, e, "ok", <<>>, NoTail)
       \/ env = MainEnv(<<Unicode, Unicode>>, "ok",
                        "Is a directory (os error 21)", <<>>, NoTail)
    /\ buffer = <<>>
    /\ h_meta = Uncalled
    /\ dyn_meta = Uncalled
    /\ criticals = Uncalled
    /\ results = Uncalled
    /\ main_pc = "start"
    /\ stderr = <<>>
    /\ stdout = <<>>
    /\ elf_identifier = Uncalled
    /\ section_header = <<>>

MainNext ==
    \/ MainReadFile
    \/ MainCheckMagic
    \/ MainReadHeader
    \/ MainScanProgramHeaders
    \/ MainReadDynamic

MainSpec == MainInit /\ [][MainNext]_vars

-----------------------------------------------------------------------------
(* What the claims speak of, read from the file's bytes *)

\* The value of the n little-endian bytes at 0-based index pos, at most U64Cap
RECURSIVE LEValue(_, _, _)
LEValue(buf, pos, n) ==
    IF n = 0 THEN 0
    ELSE LET hi == LEValue(buf, pos + 1, n - 1)
         IN  IF hi >= U64Cap \div 256 THEN U64Cap ELSE 256 * hi + buf[pos + 1]

\* The header fields
PhOff == LEValue(buffer, 32, 8)
PhEntSize == LEValue(buffer, 54, 2)
PhNum == LEValue(buffer, 56, 2)

\* The program header table of the metadata returned lies inside the buffer
PhtInBounds ==
    /\ h_meta.kind = "some"
    /\ PhOff + PhEntSize * PhNum <= Len(buffer)

\* The fields of the i-th entry of the program header table
PhType(i) == LEValue(buffer, PhOff + PhEntSize * (i - 1), 4)
PhOffset(i) == LEValue(buffer, PhOff + PhEntSize * (i - 1) + 8, 8)
PhFileSz(i) == LEValue(buffer, PhOff + PhEntSize * (i - 1) + 32, 8)

\* The entries that have a type field, and it is 2
PhDynamic == {i \in 1..PhNum : PhEntSize >= 4 /\ PhType(i) = 2}

\* The dynamic section of the entry returned lies inside the buffer
DynInBounds ==
    /\ dyn_meta.kind = "some"
    /\ dyn_meta.val.p_offset < U64Cap
    /\ dyn_meta.val.p_filesz < U64Cap
    /\ dyn_meta.val.p_offset + dyn_meta.val.p_filesz <= Len(buffer)

\* The 16-byte elements of that dynamic section
DynCount == dyn_meta.val.p_filesz \div 16
DynTag(i) == LEValue(buffer, dyn_meta.val.p_offset + 16 * (i - 1), 8)
DynVal(i) == LEValue(buffer, dyn_meta.val.p_offset + 16 * (i - 1) + 8, 8)
DynWithTag(t) == {i \in 1..DynCount : DynTag(i) = t}
First(S) == CHOOSE i \in S : \A j \in S : i <= j

\* The indices of the DT_NEEDED elements, in the order of the section
NeededIdx ==
    LET IsNeeded(i) == DynTag(i) = 1
    IN  SelectSeq([i \in 1..DynCount |-> i], IsNeeded)

\* The string table extract_library_names was given: the bytes of the range
\* that starts at dt_strtab and is dt_strsz long
GivenTable ==
    Slice(buffer, criticals.val.dt_strtab.d_thing,
          criticals.val.dt_strtab.d_thing + criticals.val.dt_strsz)

\* The positions of the null bytes of a table at or after 0-based index v
NullsFrom(table, v) == {i \in (v + 1)..Len(table) : table[i] = 0}

OutOfBounds == [kind |-> "err", err |-> "OutOfBounds"]

\* The string table range extract_library_names computes lies in the buffer
StrInBounds ==
    /\ criticals.kind = "ok"
    /\ usize_add(criticals.val.dt_strtab.d_thing, criticals.val.dt_strsz)
           <= Len(buffer)

-----------------------------------------------------------------------------
(* The claims *)

\* C1: when extract_library_names returns, it returns one name per DT_NEEDED
\* element of the dynamic section, and the k-th name is the one read for the
\* value of the k-th DT_NEEDED element in section order, whatever elements of
\* other tags lie between them.
C1_NeededOrder ==
    results.kind = "ok" =>
        /\ Len(results.val) = Len(NeededIdx)
        /\ \A k \in 1..Len(NeededIdx) :
              results.val[k] =
                  library_name(GivenTable, [d_thing |-> DynVal(NeededIdx[k])])

\* Two different names were returned for two DT_NEEDED elements that have an
\* element of another tag between them.
C1_Witness ==
    /\ results.kind = "ok"
    /\ Len(results.val) >= 2
    /\ results.val[1] # results.val[2]
    /\ \E i \in 1..DynCount :
          DynTag(i) # 1 /\ NeededIdx[1] < i /\ i < NeededIdx[2]

\* C2: the name returned for a DT_NEEDED element whose value v lies inside the
\* string table, with a null byte at or after v, is the bytes from v up to and
\* excluding that null byte.
C2_NameExcludesNull ==
    results.kind = "ok" =>
        \A k \in 1..Len(NeededIdx) :
            LET v == DynVal(NeededIdx[k])
            IN  (v < Len(GivenTable) /\ NullsFrom(GivenTable, v) # {}) =>
                    /\ k <= Len(results.val)
                    /\ results.val[k] =
                          SubSeq(GivenTable, v + 1,
                                 First(NullsFrom(GivenTable, v)) - 1)

\* C3: for a dynamic section with a tag-5 and a tag-10 element, dt_strtab is
\* the value of the first tag-5 element and dt_strsz the value of the first
\* tag-10 element.
C3_StrSzFromSizeTag ==
    (criticals.kind = "ok" /\ DynWithTag(5) # {} /\ DynWithTag(10) # {}) =>
        /\ criticals.val.dt_strtab.d_thing = DynVal(First(DynWithTag(5)))
        /\ criticals.val.dt_strsz = DynVal(First(DynWithTag(10)))

\* C4: once main() has seen that the first four bytes are not the ELF magic,
\* no later stage runs: the header is not decoded, the program header table
\* is not scanned, the dynamic section is not read, nothing is printed.
C4_NotElfStops ==
    (InRange(buffer, 0, 4) /\ Slice(buffer, 0, 4) # MAGIC_IDENT) =>
        /\ elf_identifier = Uncalled
        /\ section_header = <<>>
        /\ stdout = <<>>
        /\ main_pc \notin {"scan", "dynamic", "done"}

\* C5: a program header table, dynamic section or string table range that
\* exceeds the buffer makes the function that computes it return OutOfBounds.
C5_OutOfBoundsReturned ==
    /\ (dyn_meta # Uncalled
        /\ usize_add(PhOff, usize_mul(PhEntSize, PhNum)) > Len(buffer))
           => dyn_meta = OutOfBounds
    /\ (criticals # Uncalled
        /\ usize_add(dyn_meta.val.p_offset, dyn_meta.val.p_filesz)
               > Len(buffer))
           => criticals = OutOfBounds
    /\ (results # Uncalled /\ ~StrInBounds) => results = OutOfBounds

\* C6: on a program header table (inside the buffer) with no entry of type 2,
\* whatever the entry size and count, extract_program_section_meta returns
\* None.
C6_NoDynamicIsNone ==
    (dyn_meta # Uncalled /\ PhtInBounds /\ PhDynamic = {}) => dyn_meta = None

\* C7: on a program header table inside the buffer with an entry whose type
\* field is 2, extract_program_section_meta returns the lowest such entry,
\* with p_offset and p_filesz the 8-byte values at its offsets 0x08 and 0x20.
C7_FirstDynamicAnyEntrySize ==
    (dyn_meta # Uncalled /\ PhtInBounds /\ PhDynamic # {}) =>
        /\ dyn_meta.kind = "some"
        /\ dyn_meta.val = [p_type   |-> "PtDynamic",
                           p_offset |-> PhOffset(First(PhDynamic)),
                           p_filesz |-> PhFileSz(First(PhDynamic))]

\* C8: on a buffer of at least 64 bytes extract_section_header_meta returns
\* None exactly when the e_phoff field is zero, and otherwise the values of
\* the three fields (so a returned e_phoff is never 0).
C8_HeaderMeta ==
    (h_meta # Uncalled /\ Len(buffer) >= 64) =>
        IF PhOff = 0 THEN h_meta = None
        ELSE h_meta = Some([e_phoff     |-> PhOff,
                            e_phentsize |-> PhEntSize,
                            e_phnum     |-> PhNum])

\* None was returned for a header whose offset field is zero although it
\* declares entries.
C8_Witness ==
    /\ h_meta = None
    /\ Len(buffer) >= 64
    /\ PhOff = 0
    /\ PhNum > 0
    /\ PhEntSize > 0

\* C9: on a dynamic section inside the buffer, made of whole elements, with a
\* tag-5 and a tag-10 element and no tag-1 element, read_dynamic_section
\* returns and extract_library_names returns the empty sequence.
C9_NoNeededIsEmpty ==
    (criticals # Uncalled /\ DynInBounds /\ dyn_meta.val.p_filesz % 16 = 0
     /\ DynWithTag(5) # {} /\ DynWithTag(10) # {} /\ DynWithTag(1) = {}) =>
        /\ criticals.kind = "ok"
        /\ results # Uncalled => results = Ok(<<>>)

\* C10: when some DT_NEEDED element has a value v with no null byte at or
\* after v in the string table (v past its end included),
\* extract_library_names returns OutOfBounds.
C10_UnterminatedIsOutOfBounds ==
    (results # Uncalled /\ StrInBounds
     /\ \E k \in 1..Len(NeededIdx) :
           NullsFrom(GivenTable, DynVal(NeededIdx[k])) = {})
        => results = OutOfBounds

=============================================================================
